---- MODULE Spec2Model ----
(***************************************************************************)
(* Model of bevy_snake (src/src/main.rs).                                  *)
(*                                                                         *)
(* The world holds one SnakeHead entity, the body entities listed in       *)
(* SnakeHead.tail, and one Fruit entity.  Three systems run in the update  *)
(* stage of every frame: snake_input_system, fruit_collision_system and,   *)
(* when its FixedTimestep criterion fires, move_snake_system.  No ordering *)
(* is declared between them, so each frame runs them in any order.         *)
(* Commands (the spawn of a new body part) are applied when every system   *)
(* of the pass has run.  An AppExit event ends the program after the       *)
(* frame in which it was sent.                                             *)
(*                                                                         *)
(* Translations are kept in world units (cell index * SNAKE_SIZE), as the  *)
(* code keeps them; z is 0 for every head, part and fruit and is omitted.  *)
(***************************************************************************)
EXTENDS Integers, Sequences, FiniteSets, TLC

\* Half extents of the field in cells (main.rs:9,11 set both to 10; the
\* model explores a smaller field).
FIELD_WIDTH == 2
FIELD_HEIGHT == 1
\* Size of the snake and the fruit (main.rs:13).
SNAKE_SIZE == 50

\* Longest tail explored: a pickup with a full tail is not taken.
MaxTail == 2
\* Most keys reported as just pressed in one frame.
MaxKeys == 1
\* Most runs of move_snake_system in one frame (FixedTimestep catches up).
MaxTicksPerFrame == 2

VARIABLES
    head_translation,   \* Transform.translation of the SnakeHead entity
    direction,          \* SnakeHead.direction
    tail,               \* SnakeHead.tail: Vec<Entity>, head-to-tail order
    part_translation,   \* entity -> Transform.translation, spawned tail parts
    commands,           \* Commands queue: spawns not yet applied
    fruit_translation,  \* Transform.translation of the Fruit entity
    exit_event,         \* an AppExit event has been sent
    pending,            \* systems still to run in the current pass
    ticks_in_frame,     \* runs of move_snake_system in the current frame
    running,            \* the app has not exited
    travel,             \* direction applied by the latest move_snake_system
    right_ticks,        \* ticks so far while Right is the only direction
                        \* ever set and every tick applied it, else -1
    last_set,           \* direction of the latest direction key pressed
    tail_at_tick        \* Len(tail) when move_snake_system last ran

vars == <<head_translation, direction, tail, part_translation, commands,
          fruit_translation, exit_event, pending, ticks_in_frame, running,
          travel, right_ticks, last_set, tail_at_tick>>

----------------------------------------------------------------------------
\* Vectors

ZERO == <<0, 0>>

VecAdd(a, b) == <<a[1] + b[1], a[2] + b[2]>>

VecSub(a, b) == <<a[1] - b[1], a[2] - b[2]>>

\* Vec3::new(direction.x * size.x, direction.y * size.y, 0.0), with
\* size = Vec2::splat(SNAKE_SIZE)
Step(dir) == <<dir[1] * SNAKE_SIZE, dir[2] * SNAKE_SIZE>>

\* The entity of the snake head; tail parts are entities 1, 2, ...
HeadEntity == 0

----------------------------------------------------------------------------
\* GenFruitPos with one more column on either side.
GenFruitPosWide ==
    { <<x * SNAKE_SIZE, y * SNAKE_SIZE>> :
        x \in (-FIELD_WIDTH - 1)..(FIELD_WIDTH + 1),
        y \in (-FIELD_HEIGHT)..FIELD_HEIGHT }

\* GenFruitPos with half-open ranges.
GenFruitPosExclusive ==
    { <<x * SNAKE_SIZE, y * SNAKE_SIZE>> :
        x \in (-FIELD_WIDTH)..(FIELD_WIDTH - 1),
        y \in (-FIELD_HEIGHT)..(FIELD_HEIGHT - 1) }

\* gen_fruit_pos: every outcome of the two gen_range draws
GenFruitPos ==
    { <<x * SNAKE_SIZE, y * SNAKE_SIZE>> :
        x \in (-FIELD_WIDTH)..FIELD_WIDTH, y \in (-FIELD_HEIGHT)..FIELD_HEIGHT }

\* InBounds with the y range left out.
InBoundsXOnly(pos) ==
    (-FIELD_WIDTH) * SNAKE_SIZE <= pos[1] /\ pos[1] <= FIELD_WIDTH * SNAKE_SIZE

\* InBounds with half-open ranges (a..b for a..=b).
InBoundsExclusive(pos) ==
    /\ (-FIELD_WIDTH) * SNAKE_SIZE <= pos[1] /\ pos[1] < FIELD_WIDTH * SNAKE_SIZE
    /\ (-FIELD_HEIGHT) * SNAKE_SIZE <= pos[2] /\ pos[2] < FIELD_HEIGHT * SNAKE_SIZE

\* x_bounds.contains(&pos.x) && y_bounds.contains(&pos.y)
InBounds(pos) ==
    /\ (-FIELD_WIDTH) * SNAKE_SIZE <= pos[1] /\ pos[1] <= FIELD_WIDTH * SNAKE_SIZE
    /\ (-FIELD_HEIGHT) * SNAKE_SIZE <= pos[2] /\ pos[2] <= FIELD_HEIGHT * SNAKE_SIZE

----------------------------------------------------------------------------
\* The systems of the first pass of a frame: the two per-frame systems and,
\* if the FixedTimestep step has elapsed, move_snake_system.
FramePasses == { {"input", "fruit"}, {"input", "fruit", "move"} }

\* setup_system: head at Vec3::ZERO with SnakeHead::default() (direction
\* zero, empty tail), fruit at gen_fruit_pos; startup commands are applied
\* before the first frame, in which no time has elapsed yet for a step.

Init ==
    /\ head_translation = ZERO
    /\ direction = ZERO
    /\ tail = <<>>
    /\ part_translation = <<>>
    /\ commands = <<>>
    /\ fruit_translation \in GenFruitPos
    /\ exit_event = FALSE
    /\ pending = {"input", "fruit"}
    /\ ticks_in_frame = 0
    /\ running = TRUE
    /\ travel = ZERO
    /\ right_ticks = 0
    /\ last_set = ZERO
    /\ tail_at_tick = 0

----------------------------------------------------------------------------
\* snake_input_system

KeyCodes == {"A", "Left", "D", "Right", "W", "Up", "S", "Down", "Space"}

\* The match of snake_input_system on one key; cur is kept on `continue`.
KeyDirection(key, cur) ==
    CASE key \in {"A", "Left"}  -> <<-1, 0>>
      [] key \in {"D", "Right"} -> <<1, 0>>
      [] key \in {"W", "Up"}    -> <<0, 1>>
      [] key \in {"S", "Down"}  -> <<0, -1>>
      [] OTHER                  -> cur

\* ApplyKeys that keeps a direction once one is set.
ApplyKeysFirstWins(keys, cur) ==
    IF keys = <<>> \/ cur # ZERO THEN cur
    ELSE KeyDirection(Head(keys), cur)

\* for key in input.get_just_pressed() { snake_head.direction = ... }
RECURSIVE ApplyKeys(_, _)
ApplyKeys(keys, cur) ==
    IF keys = <<>> THEN cur
    ELSE ApplyKeys(Tail(keys), KeyDirection(Head(keys), cur))

\* The just-pressed keys of a frame, in iteration order.
JustPressed == UNION { [1..n -> KeyCodes] : n \in 0..MaxKeys }

\* The direction keys, as the input collaborator names them.
DirectionKeys ==
    [A |-> <<-1, 0>>, Left |-> <<-1, 0>>, D |-> <<1, 0>>, Right |-> <<1, 0>>,
     W |-> <<0, 1>>, Up |-> <<0, 1>>, S |-> <<0, -1>>, Down |-> <<0, -1>>]

\* The direction of the last direction key among keys, or cur if none.
LastDirectionKey(keys, cur) ==
    LET hits == { i \in 1..Len(keys) : keys[i] \in DOMAIN DirectionKeys }
    IN IF hits = {} THEN cur
       ELSE DirectionKeys[keys[CHOOSE i \in hits : \A j \in hits : j <= i]]

SnakeInputSystem(keys) ==
    /\ running
    /\ "input" \in pending
    /\ direction' = ApplyKeys(keys, direction)
    /\ pending' = pending \ {"input"}
    /\ right_ticks' = IF direction' \in {ZERO, <<1, 0>>} THEN right_ticks ELSE -1
    /\ last_set' = LastDirectionKey(keys, last_set)
    /\ UNCHANGED <<head_translation, tail, part_translation, commands,
                   fruit_translation, exit_event, ticks_in_frame, running,
                   travel, tail_at_tick>>

----------------------------------------------------------------------------
\* fruit_collision_system

\* PartExists for a snake_parts query that leaves the head out.
PartExistsTailOnly(entity) ==
    entity \in DOMAIN part_translation

\* snake_parts.get(entity): the head carries SnakePart too; a tail part is
\* found once its spawn command has been applied.
PartExists(entity) ==
    entity = HeadEntity \/ entity \in DOMAIN part_translation

PartTranslation(entity) ==
    IF entity = HeadEntity THEN head_translation ELSE part_translation[entity]

\* LastSnakePart taking the head whatever the tail holds.
LastSnakePartHead == HeadEntity

\* snake_head.tail.last().copied().unwrap_or(snake_head_entity)
LastSnakePart == IF tail = <<>> THEN HeadEntity ELSE tail[Len(tail)]

\* commands.spawn_bundle(..) reserves the next entity id at once.
NewEntity == Len(tail) + 1

\* Pickup comparing the x coordinate only.
PickupXOnly == head_translation[1] = fruit_translation[1]

\* snake_head_pos.translation == fruit.translation
Pickup == head_translation = fruit_translation

FruitCollisionSystem(new_fruit) ==
    /\ running
    /\ "fruit" \in pending
    /\ Pickup => Len(tail) < MaxTail
    /\ pending' = pending \ {"fruit"}
    /\ IF Pickup
       THEN /\ fruit_translation' = new_fruit
            /\ IF PartExists(LastSnakePart)
               THEN /\ commands' = Append(commands,
                          [entity |-> NewEntity,
                           translation |-> VecSub(PartTranslation(LastSnakePart),
                                                  Step(direction))])
                    /\ tail' = Append(tail, NewEntity)
               ELSE UNCHANGED <<commands, tail>>
       ELSE UNCHANGED <<fruit_translation, commands, tail>>
    /\ UNCHANGED <<head_translation, direction, part_translation, exit_event,
                   ticks_in_frame, running, travel, right_ticks, last_set,
                   tail_at_tick>>

----------------------------------------------------------------------------
\* move_snake_system

\* NewHeadPos with the step subtracted.
NewHeadPosBackwards == VecSub(head_translation, Step(direction))

\* NewHeadPos with the step left out.
NewHeadPosStill == head_translation

\* transform.translation += Vec3::new(direction * size)
NewHeadPos == VecAdd(head_translation, Step(direction))

\* The loop over snake_head.tail from index i on: prev is the translation
\* handed down, parts the translations so far, hit whether AppExit was sent.
\* A part whose entity is not in the world yet is skipped.
RECURSIVE ShiftTail(_, _, _, _, _)
ShiftTail(i, pos, prev, parts, hit) ==
    IF i > Len(tail) THEN [parts |-> parts, hit |-> hit]
    ELSE IF tail[i] \in DOMAIN parts
         THEN ShiftTail(i + 1, pos, parts[tail[i]],
                        [parts EXCEPT ![tail[i]] = prev],
                        hit \/ parts[tail[i]] = pos)
         ELSE ShiftTail(i + 1, pos, prev, parts, hit)

MoveSnakeSystem ==
    /\ running
    /\ "move" \in pending
    /\ LET pos == NewHeadPos
           shifted == ShiftTail(1, pos, head_translation, part_translation, FALSE)
       IN /\ head_translation' = pos
          /\ part_translation' = shifted.parts
          /\ exit_event' = (exit_event \/ shifted.hit \/ ~InBounds(pos))
    /\ pending' = pending \ {"move"}
    /\ ticks_in_frame' = ticks_in_frame + 1
    /\ travel' = direction
    /\ right_ticks' = IF right_ticks >= 0 /\ direction = <<1, 0>>
                         /\ right_ticks <= FIELD_WIDTH
                      THEN right_ticks + 1 ELSE -1
    /\ tail_at_tick' = Len(tail)
    /\ UNCHANGED <<direction, tail, commands, fruit_translation, running,
                   last_set>>

----------------------------------------------------------------------------
\* The schedule built in main: end of a pass of the update stage.

\* Applying the queued spawn commands creates the new parts.
RECURSIVE ApplyCommands(_, _)
ApplyCommands(cmds, parts) ==
    IF cmds = <<>> THEN parts
    ELSE ApplyCommands(Tail(cmds),
                       Append(parts, Head(cmds).translation))

\* ApplyBuffers with a runner that never looks at AppExit.
ApplyBuffersNoExit ==
    /\ running
    /\ pending = {}
    /\ part_translation' = ApplyCommands(commands, part_translation)
    /\ commands' = <<>>
    /\ \/ /\ ticks_in_frame \in 1..(MaxTicksPerFrame - 1)
          /\ pending' = {"move"}
          /\ UNCHANGED <<ticks_in_frame, running>>
       \/ /\ pending' \in FramePasses
          /\ ticks_in_frame' = 0
          /\ UNCHANGED running
    /\ UNCHANGED <<head_translation, direction, tail, fruit_translation,
                   exit_event, travel, right_ticks, last_set, tail_at_tick>>

ApplyBuffers ==
    /\ running
    /\ pending = {}
    /\ part_translation' = ApplyCommands(commands, part_translation)
    /\ commands' = <<>>
    /\ \/ \* FixedTimestep: YesAndCheckAgain, the step is due once more
          /\ ticks_in_frame \in 1..(MaxTicksPerFrame - 1)
          /\ pending' = {"move"}
          /\ UNCHANGED <<ticks_in_frame, running>>
       \/ \* the frame ends with AppExit sent: the runner exits
          /\ exit_event
          /\ running' = FALSE
          /\ UNCHANGED <<pending, ticks_in_frame>>
       \/ \* the frame ends and the next one starts
          /\ ~exit_event
          /\ pending' \in FramePasses
          /\ ticks_in_frame' = 0
          /\ UNCHANGED running
    /\ UNCHANGED <<head_translation, direction, tail, fruit_translation,
                   exit_event, travel, right_ticks, last_set, tail_at_tick>>

----------------------------------------------------------------------------
Next ==
    \/ \E keys \in JustPressed : SnakeInputSystem(keys)
    \/ \E new_fruit \in GenFruitPos : FruitCollisionSystem(new_fruit)
    \/ MoveSnakeSystem
    \/ ApplyBuffers

Spec == Init /\ [][Next]_vars

\* The runner keeps calling App::update while the program runs, and every
\* pass runs each of its systems: no enabled step is put off for ever.
LiveSpec == Spec /\ WF_vars(Next)

----------------------------------------------------------------------------
\* Vocabulary of the properties

\* A translation on a cell of the grid [-W, W] x [-H, H].
WithinGrid(pos) ==
    \E x \in (-FIELD_WIDTH)..FIELD_WIDTH, y \in (-FIELD_HEIGHT)..FIELD_HEIGHT :
        pos = <<x * SNAKE_SIZE, y * SNAKE_SIZE>>

\* The translation of a listed tail entity: the one it has in the world, or
\* the one its queued spawn command gives it.
SegmentPos(parts, cmds, entity) ==
    IF entity \in DOMAIN parts THEN parts[entity]
    ELSE cmds[CHOOSE i \in 1..Len(cmds) : cmds[i].entity = entity].translation

\* A run of move_snake_system that sends AppExit while the game is running.
TickEndsGame == MoveSnakeSystem /\ ~exit_event /\ exit_event'

\* The positions of the listed segments, head-to-tail.
Body(parts, cmds, tl) ==
    [k \in 1..Len(tl) |-> SegmentPos(parts, cmds, tl[k])]

\* A step that is a run of the named system: it leaves the pending set.
InputStep == "input" \in pending /\ "input" \notin pending'

TickStep == "move" \in pending /\ "move" \notin pending'

FruitStep == "fruit" \in pending /\ "fruit" \notin pending'

\* A run of fruit_collision_system that finds the head on the fruit.
PickupStep == Pickup /\ \E new_fruit \in GenFruitPos : FruitCollisionSystem(new_fruit)

----------------------------------------------------------------------------
\* C1: whenever the game is not over the head lies on a cell of the grid
\* [-W, W] x [-H, H]; a tick that takes the head off the grid signals game
\* over in that tick.
C1_HeadWithinBounds ==
    ~exit_event => WithinGrid(head_translation)

\* C1 witness: a tick has moved the head off the grid and signalled.
C1_Witness ==
    exit_event /\ ~WithinGrid(head_translation)

C3_FollowTheLeader ==
    [][(MoveSnakeSystem /\ ~exit_event /\ direction # ZERO) =>
         \A k \in 1..Len(tail) :
            /\ tail[k] \in DOMAIN part_translation'
            /\ part_translation'[tail[k]] =
                  IF k = 1 THEN head_translation
                  ELSE SegmentPos(part_translation, commands, tail[k - 1])]_vars

\* C4: a pickup lengthens the tail list by exactly one; every other step
\* (key input, tick, a fruit check without pickup) leaves its length alone.
C4_GrowthByOne ==
    [][/\ PickupStep => Len(tail') = Len(tail) + 1
       /\ ~PickupStep => Len(tail') = Len(tail)]_vars

\* C4 witness: a pickup has just appended a segment to a non-empty tail.
C4_Witness ==
    Len(tail) >= 2 /\ commands # <<>>

\* C5 (as claimed): after a pickup the fruit is not on the cell that was
\* just consumed, whatever gen_fruit_pos draws.
C5_FruitLeavesConsumedCell ==
    [][PickupStep => fruit_translation' # head_translation]_vars

\* C6 (as claimed): a tick with the direction still zero leaves the head on
\* the start cell and the game running, for every initial fruit position.
C6_ZeroDirectionTickIsIdle ==
    [][(MoveSnakeSystem /\ direction = ZERO) =>
         /\ head_translation' = head_translation
         /\ head_translation' = ZERO
         /\ ~exit_event']_vars

\* C7 (as claimed): with at least two segments listed, a tick run after the
\* direction was reversed, whose new head position is the new position of a
\* listed segment, signals game over.
C7_ReversalEndsGame ==
    [][(/\ MoveSnakeSystem
        /\ ~exit_event
        /\ Len(tail) >= 2
        /\ travel # ZERO
        /\ direction = <<-travel[1], -travel[2]>>
        /\ \E k \in 1..Len(tail) :
              SegmentPos(part_translation', commands', tail[k]) = head_translation')
       => exit_event']_vars

\* C8 (as claimed, for half-width W = 2): with Right the only direction set
\* and applied by every tick from (0,0), after tick W + 1 the head is at
\* (W, 0) and the game is still running (tick W + 2 then signals game over).
C8_BoundaryAfterThirdTick ==
    right_ticks = FIELD_WIDTH + 1 =>
        /\ head_translation = <<FIELD_WIDTH * SNAKE_SIZE, 0>>
        /\ ~exit_event

\* C8 (amended): with Right the only direction set and applied by every
\* tick from (0,0), after tick k <= W the head is at (k, 0) and the game is
\* still running, and tick W + 1 takes it to (W + 1, 0) and signals game
\* over.
C8_BoundaryAfterWTicks ==
    /\ right_ticks \in 0..FIELD_WIDTH =>
          /\ head_translation = <<right_ticks * SNAKE_SIZE, 0>>
          /\ ~exit_event
    /\ right_ticks = FIELD_WIDTH + 1 =>
          /\ head_translation = <<(FIELD_WIDTH + 1) * SNAKE_SIZE, 0>>
          /\ exit_event

\* C8 witness: the tick after the boundary cell has run.
C8_Witness ==
    right_ticks = FIELD_WIDTH + 1

\* C9 (as claimed): between frames, while the game is not over, the head,
\* the fruit and every body segment are on cells of the grid.
C9_AllWithinGrid ==
    (~exit_event /\ pending \in FramePasses /\ ticks_in_frame = 0) =>
        /\ WithinGrid(head_translation)
        /\ WithinGrid(fruit_translation)
        /\ \A k \in 1..Len(tail) :
              WithinGrid(SegmentPos(part_translation, commands, tail[k]))

\* C10 (as claimed): the fruit is never placed on the head or on a body
\* segment, neither by setup nor by a relocation.
C10_FruitSpawnsOnFreeCell ==
    /\ fruit_translation # head_translation
    /\ [][PickupStep =>
            /\ fruit_translation' # head_translation
            /\ \A k \in 1..Len(tail) :
                  tail[k] \in DOMAIN part_translation =>
                      fruit_translation' # part_translation[tail[k]]]_vars

C12_GameOverFreezesState ==
    [][exit_event =>
         /\ exit_event'
         /\ head_translation' = head_translation
         /\ direction' = direction
         /\ Body(part_translation', commands', tail')
               = Body(part_translation, commands, tail)
         /\ fruit_translation' = fruit_translation]_vars

\* C12 (amended): once game over is signalled it stays signalled, no new
\* frame starts (snake_input_system and fruit_collision_system are never
\* scheduled again) and the program exits when the frame's passes are done;
\* the systems still pending in that frame do run and may change the state.
C12_GameOverEndsFrames ==
    [][exit_event =>
         /\ exit_event'
         /\ "input" \in pending' => "input" \in pending
         /\ "fruit" \in pending' => "fruit" \in pending
         /\ ticks_in_frame' >= ticks_in_frame
         /\ (pending = {} /\ pending' = {}) => ~running']_vars

\* C12 witness: the program has exited after a game over.
C12_Witness ==
    exit_event /\ ~running

\* C13 (as claimed): a run of fruit_collision_system after a tick of the
\* same frame has signalled game over performs no pickup: the fruit stays
\* and no segment is appended.
C13_NoPickupAfterGameOver ==
    [][(FruitStep /\ exit_event) =>
         /\ fruit_translation' = fruit_translation
         /\ tail' = tail
         /\ commands' = commands]_vars

\* C13 (amended): no pickup follows a game over signalled by leaving the
\* bounds; after a game over by self-collision, with the head on the grid,
\* the pickup is still performed.
C13_NoPickupAfterLeavingBounds ==
    [][(FruitStep /\ exit_event /\ ~WithinGrid(head_translation)) =>
         /\ fruit_translation' = fruit_translation
         /\ tail' = tail
         /\ commands' = commands]_vars

\* C13 witness: the head has left the grid, game over is signalled and
\* fruit_collision_system has run in that frame.
C13_Witness ==
    /\ exit_event
    /\ ~WithinGrid(head_translation)
    /\ running
    /\ ticks_in_frame = 1
    /\ "fruit" \notin pending

\* C14: on a pickup the new segment is appended at the tail end of the list
\* and placed at p - d, one cell behind p against the head's direction d,
\* where p is the position of the last listed segment, or of the head when
\* the list is empty; the segments listed before keep order and positions.
C14_GrowthPlacement ==
    [][(FruitStep /\ head_translation = fruit_translation) =>
         LET p == IF tail = <<>> THEN head_translation
                  ELSE SegmentPos(part_translation, commands, tail[Len(tail)])
             new == tail'[Len(tail')]
         IN  /\ Len(tail') = Len(tail) + 1
             /\ SubSeq(tail', 1, Len(tail)) = tail
             /\ \A k \in 1..Len(tail) : new # tail[k]
             /\ SegmentPos(part_translation', commands', new) =
                   <<p[1] - direction[1] * SNAKE_SIZE,
                     p[2] - direction[2] * SNAKE_SIZE>>
             /\ \A k \in 1..Len(tail) :
                   SegmentPos(part_translation', commands', tail[k]) =
                      SegmentPos(part_translation, commands, tail[k])]_vars

\* C14 witness: a pickup made with direction Left has appended a second
\* segment one cell to the right of the first.
C14_Witness ==
    /\ Len(tail) = 2
    /\ direction = <<-1, 0>>
    /\ 1 \in DOMAIN part_translation
    /\ Len(commands) = 1
    /\ commands[1].entity = tail[2]
    /\ commands[1].translation =
          <<part_translation[tail[1]][1] + SNAKE_SIZE, part_translation[tail[1]][2]>>

\* C15: the fruit lies on a cell of the grid [-W, W] x [-H, H] in every
\* reachable state, every cell of the grid is an outcome of gen_fruit_pos,
\* and whenever the fruit check is about to find the head on the fruit,
\* relocating the fruit to any cell of the grid is a possible step.
C15_FruitWithinGridAnyCell ==
    /\ WithinGrid(fruit_translation)
    /\ \A x \in (-FIELD_WIDTH)..FIELD_WIDTH, y \in (-FIELD_HEIGHT)..FIELD_HEIGHT :
          /\ <<x * SNAKE_SIZE, y * SNAKE_SIZE>> \in GenFruitPos
          /\ (/\ running
              /\ "fruit" \in pending
              /\ head_translation = fruit_translation
              /\ Len(tail) < MaxTail)
             => ENABLED (/\ \E new_fruit \in GenFruitPos :
                               FruitCollisionSystem(new_fruit)
                         /\ fruit_translation' = <<x * SNAKE_SIZE, y * SNAKE_SIZE>>)

\* C15 witness: a pickup has relocated the fruit to the corner cell (W, H).
C15_Witness ==
    /\ tail # <<>>
    /\ commands # <<>>
    /\ "fruit" \notin pending
    /\ fruit_translation = <<FIELD_WIDTH * SNAKE_SIZE, FIELD_HEIGHT * SNAKE_SIZE>>

\* C16: the fruit position changes only in a run of fruit_collision_system
\* that finds the head's position equal to the fruit's; key input and ticks
\* never change it, nor does the end of a pass.
C16_FruitChangesOnlyByPickup ==
    [][/\ fruit_translation' # fruit_translation =>
             (FruitStep /\ head_translation = fruit_translation)
       /\ (InputStep \/ TickStep) => fruit_translation' = fruit_translation]_vars

\* C16 witness: a tick has taken the head onto the fruit's cell, away from
\* the start cell, and the fruit has then been relocated by the pickup.
C16_Witness ==
    /\ head_translation # ZERO
    /\ travel # ZERO
    /\ fruit_translation # head_translation
    /\ Len(commands) = 1
    /\ commands[1].translation = VecSub(head_translation, Step(direction))
    /\ tail = <<commands[1].entity>>

\* C17 (as claimed): whenever a tick ends the game by self-collision, the
\* head's new position is the position, before or after the shift, of a
\* segment that was already listed at the previous tick; a segment appended
\* since then never ends the game.
C17_NewSegmentHarmless ==
    [][(/\ TickStep
        /\ ~exit_event
        /\ exit_event'
        /\ WithinGrid(head_translation')) =>
         \E k \in 1..tail_at_tick :
            \/ SegmentPos(part_translation, commands, tail[k]) = head_translation'
            \/ SegmentPos(part_translation', commands', tail[k]) = head_translation']_vars

\* C18: if from some point on the direction is non-zero and is changed no
\* more, and ticks keep occurring, then game over is eventually signalled:
\* the head cannot move for ever in one direction.
C18_EventuallyGameOver ==
    (/\ <>[](direction # ZERO)
     /\ <>[][direction' = direction]_vars
     /\ []<><<TickStep>>_vars)
    => <>exit_event

\* C18 witness: the head has crossed the grid to the right from the start
\* cell without any turn and the tick that took it off the grid signalled.
C18_Witness ==
    /\ exit_event
    /\ right_ticks = FIELD_WIDTH + 1
    /\ head_translation = <<(FIELD_WIDTH + 1) * SNAKE_SIZE, 0>>

\* C19 (as claimed): at every tick each entity listed in the head's tail
\* refers to a part that exists, whatever the order of the systems in the
\* frame, so the shift and the self-collision check skip no segment.
C19_TickSeesEveryListedSegment ==
    [][TickStep => \A k \in 1..Len(tail) : tail[k] \in DOMAIN part_translation]_vars

====
